---------------------------- MODULE Spec2Model ----------------------------
(***************************************************************************)
(* Session-based authentication and per-owner expense isolation of the     *)
(* Expense Tracker MCP server (src/main.py), together with the earlier     *)
(* SQLite server kept in the repository (src/test.py).                     *)
(*                                                                         *)
(* The MongoDB collections are the state.  Every tool of main.py is one    *)
(* action of Spec (a whole handler, run to completion).  LegacySpec starts *)
(* from a store holding a token without expiry; FaultSpec adds the         *)
(* handlers run with a failing store call.  RaceSpec runs two              *)
(* register_user requests side by side, one store call per step;           *)
(* SessionRaceSpec does the same for login_user and get_user_from_token,   *)
(* and DataRaceSpec runs an expense request against logouts and purges.    *)
(* ResolverSpec calls get_user_from_token with any value, None included.   *)
(* TestSpec is the state machine of src/test.py, which has its own store.  *)
(***************************************************************************)
EXTENDS Integers, Sequences, FiniteSets, TLC

(***************************************************************************)
(* Bounds of the model.                                                    *)
(***************************************************************************)
\* users registered in one behaviour
MaxUsers == 2
\* session tokens generated in one behaviour
MaxTokens == 2
\* expense documents inserted in one behaviour
MaxExpenses == 2
\* the clock, in hours, stops at MaxClock
MaxClock == 48
\* rows inserted into the SQLite table of test.py in one behaviour
MaxRows == 3

(***************************************************************************)
(* Program constants.                                                      *)
(***************************************************************************)
\* src/main.py:26  int(os.getenv("SESSION_TIMEOUT_HOURS", "24"))
SESSION_TIMEOUT_HOURS == 24
\* Python's None: the value of session_token / session_expires_at after
\* register_user (src/main.py:131-132), logout_user and the expiry purge.
NULL == -1

(***************************************************************************)
(* Inputs.                                                                 *)
(***************************************************************************)
\* usernames and emails are both free strings: one value can be one user's
\* username and another user's email
Names == {"alice", "bob"}
Emails == {"a@x.com", "alice"}
Passwords == {"pw1", "pw2"}
Descriptions == {"coffee", "Tea"}
\* the (description, category) pairs add_expense is called with
ExpenseKinds == {<<"coffee", "Food">>, <<"Tea", "tea">>}
Amounts == {-3, 4}
SearchTerms == {"tea", "o"}

VARIABLES
    users,          \* db["users"]: sequence of documents, _id = position
    expenses,       \* db["expenses"]: set of documents
    now,            \* datetime.now(), in hours
    nextToken,      \* number of tokens secrets.token_urlsafe has produced, + 1
    nextExpenseId,  \* number of ObjectIds the expense collection has assigned, + 1
    issued,         \* history: issued[t] is the user the token t was issued to
    last,           \* the last call: its arguments and what it returned
    pc,             \* RaceSpec: the position of each request
    req,            \* RaceSpec: the arguments of each request
    ret,            \* RaceSpec: what each request returned
    rows,           \* test.py: the rows of the SQLite table expenses
    nextRowId       \* test.py: the AUTOINCREMENT counter

vars == <<users, expenses, now, nextToken, nextExpenseId, issued, last,
          pc, req, ret, rows, nextRowId>>

mainVars == <<users, expenses, now, nextToken, nextExpenseId, issued, last>>
raceVars == <<pc, req, ret>>
testVars == <<rows, nextRowId>>

Min(S) == CHOOSE x \in S : \A y \in S : x <= y

UserIds == 1..Len(users)

(***************************************************************************)
(* Helpers of the store.                                                   *)
(***************************************************************************)
\* hashlib.sha256(password.encode()).hexdigest(): a digest, never the password
\* itself; distinct passwords of the model have distinct digests
hash_password(password) == <<"sha256", password>>

\* secrets.token_urlsafe(32): 256 random bits, modelled as a value never
\* produced before
generate_session_token_reused ==
    IF nextToken > 1 THEN nextToken - 1 ELSE nextToken
\* a token derived from the time of the login
generate_session_token_from_clock == now + 1
\* a generator that hands out again a token no user holds any more
generate_session_token_recycled ==
    LET free == {t \in 1..(nextToken - 1) :
                    \A u \in 1..Len(users) : users[u].session_token # t}
    IN IF free # {} THEN Min(free) ELSE nextToken
generate_session_token == nextToken

\* find_one returns the first matching document in natural (insertion) order
FirstOf(S) == IF S = {} THEN NULL ELSE Min(S)

find_by_username(us, username) ==
    FirstOf({i \in 1..Len(us) : us[i].username = username})

find_by_email(us, email) ==
    FirstOf({i \in 1..Len(us) : us[i].email = email})

\* find_one({"$or": [{"username": x}, {"email": x}]})
find_by_username_or_email(us, identifier) ==
    FirstOf({i \in 1..Len(us) :
                us[i].username = identifier \/ us[i].email = identifier})

\* find_one({"session_token": t}); a null t matches the documents whose
\* session_token is null
find_by_session_token(us, t) ==
    FirstOf({i \in 1..Len(us) : us[i].session_token = t})

\* the unique indexes on username and email: insert_one raises
\* DuplicateKeyError, a PyMongoError, when either value is already stored
duplicate_key(us, doc) ==
    \E i \in 1..Len(us) :
        us[i].username = doc.username \/ us[i].email = doc.email

user_doc(username, email, password) ==
    [username |-> username, email |-> email,
     password_hash |-> hash_password(password),
     session_token |-> NULL, session_expires_at |-> NULL,
     last_login |-> NULL]

\* what a call leaves in `last`; args are kept for the calls that write
Call(op, args, token, user, branch, result, matched, num) ==
    [op |-> op, args |-> args, token |-> token, user |-> user,
     branch |-> branch, result |-> result, matched |-> matched, num |-> num]

NoCall == Call("none", <<>>, NULL, NULL, "none", "none", {}, 0)

(***************************************************************************)
(* Credential Store and Session Manager (src/main.py).                     *)
(***************************************************************************)
username_taken(us, username) == find_by_username(us, username) # NULL

email_taken_unchecked(us, email) == FALSE
email_taken(us, email) == find_by_email(us, email) # NULL

\* a registration that looks for the email first
register_user_email_first(username, email, password) ==
    /\ IF email_taken(users, email)
       THEN /\ users' = users
            /\ last' = Call("register_user", <<username, email, password>>, NULL,
                            NULL, "email", "Email already registered", {}, 0)
       ELSE IF username_taken(users, username)
       THEN /\ users' = users
            /\ last' = Call("register_user", <<username, email, password>>, NULL,
                            NULL, "username", "Username already exists", {}, 0)
       ELSE /\ Len(users) < MaxUsers
            /\ users' = Append(users, user_doc(username, email, password))
            /\ last' = Call("register_user", <<username, email, password>>, NULL,
                            Len(users) + 1, "ok", "User registered successfully",
                            {}, 0)
    /\ UNCHANGED <<expenses, now, nextToken, nextExpenseId, issued>>
    /\ UNCHANGED <<raceVars, testVars>>

register_user(username, email, password) ==
    /\ IF username_taken(users, username)
       THEN /\ users' = users
            /\ last' = Call("register_user", <<username, email, password>>, NULL,
                            NULL, "username", "Username already exists", {}, 0)
       ELSE IF email_taken(users, email)
       THEN /\ users' = users
            /\ last' = Call("register_user", <<username, email, password>>, NULL,
                            NULL, "email", "Email already registered", {}, 0)
       ELSE IF duplicate_key(users, user_doc(username, email, password))
       THEN /\ users' = users
            /\ last' = Call("register_user", <<username, email, password>>, NULL,
                            NULL, "error", "Error registering user", {}, 0)
       ELSE /\ Len(users) < MaxUsers
            /\ users' = Append(users, user_doc(username, email, password))
            /\ last' = Call("register_user", <<username, email, password>>, NULL,
                            Len(users) + 1, "ok", "User registered successfully",
                            {}, 0)
    /\ UNCHANGED <<expenses, now, nextToken, nextExpenseId, issued>>
    /\ UNCHANGED <<raceVars, testVars>>

\* src/main.py:169  user["password_hash"] != hash_password(password)
password_ok(doc, password) == doc.password_hash = hash_password(password)

\* src/main.py:174  datetime.now() + timedelta(hours=SESSION_TIMEOUT_HOURS)
expires_at(clock) == clock + SESSION_TIMEOUT_HOURS

\* the $set of login_user, applied to the document found
login_update_token_only(doc, token, clock) ==
    [doc EXCEPT !.session_token = token]
login_update(doc, token, clock) ==
    [doc EXCEPT !.session_token = token,
                !.session_expires_at = expires_at(clock),
                !.last_login = clock]

\* a failed login that still stamps last_login
login_failure_stamped(us, uid, clock) ==
    [us EXCEPT ![uid].last_login = clock]
login_failure(us, uid, clock) == us

login_user(username, password) ==
    LET uid == find_by_username_or_email(users, username) IN
    /\ IF uid = NULL
       THEN /\ users' = users
            /\ UNCHANGED <<nextToken, issued>>
            /\ last' = Call("login_user", <<username, password>>, NULL, NULL,
                            "no_user", "Invalid username or password", {}, 0)
       ELSE IF ~password_ok(users[uid], password)
       THEN /\ users' = login_failure(users, uid, now)
            /\ UNCHANGED <<nextToken, issued>>
            /\ last' = Call("login_user", <<username, password>>, NULL, NULL,
                            "bad_password", "Invalid username or password", {}, 0)
       ELSE /\ nextToken <= MaxTokens
            /\ users' = [users EXCEPT
                           ![uid] = login_update(@, generate_session_token, now)]
            /\ nextToken' = nextToken + 1
            /\ issued' = Append(issued, uid)
            /\ last' = Call("login_user", <<username, password>>,
                            generate_session_token, uid, "ok", "Login successful",
                            {}, expires_at(now))
    /\ UNCHANGED <<expenses, now, nextExpenseId>>
    /\ UNCHANGED <<raceVars, testVars>>

\* src/main.py:217 and 283: the session has expired when now > expires_at
is_expired_at_or_after(clock, exp) == clock >= exp
is_expired(clock, exp) == clock > exp

\* what check_session_status finds: the holder, the return statement taken
\* and, for a valid session, the hours remaining
session_status_at_or_after(us, session_token, clock) ==
    LET uid == find_by_session_token(us, session_token) IN
    IF uid = NULL
    THEN [user |-> NULL, branch |-> "invalid",
          result |-> "Invalid session token", num |-> 0]
    ELSE IF us[uid].session_expires_at = NULL
    THEN [user |-> uid, branch |-> "legacy",
          result |-> "Session found but no expiration set", num |-> 0]
    ELSE IF clock >= us[uid].session_expires_at
    THEN [user |-> uid, branch |-> "expired",
          result |-> "Session expired", num |-> 0]
    ELSE [user |-> uid, branch |-> "valid", result |-> "Session is valid",
          num |-> us[uid].session_expires_at - clock]
session_status(us, session_token, clock) ==
    LET uid == find_by_session_token(us, session_token) IN
    IF uid = NULL
    THEN [user |-> NULL, branch |-> "invalid",
          result |-> "Invalid session token", num |-> 0]
    ELSE IF us[uid].session_expires_at = NULL
    THEN [user |-> uid, branch |-> "legacy",
          result |-> "Session found but no expiration set", num |-> 0]
    ELSE IF is_expired(clock, us[uid].session_expires_at)
    THEN [user |-> uid, branch |-> "expired",
          result |-> "Session expired", num |-> 0]
    ELSE [user |-> uid, branch |-> "valid", result |-> "Session is valid",
          num |-> us[uid].session_expires_at - clock]

\* a status check that purges the expired session it reports
check_session_status_purging(session_token) ==
    LET st == session_status(users, session_token, now) IN
    /\ last' = Call("check_session_status", <<session_token>>, session_token,
                    st.user, st.branch, st.result, {}, st.num)
    /\ users' = IF st.branch = "expired"
                THEN [users EXCEPT ![st.user].session_token = NULL,
                                   ![st.user].session_expires_at = NULL]
                ELSE users
    /\ UNCHANGED <<expenses, now, nextToken, nextExpenseId, issued>>
    /\ UNCHANGED <<raceVars, testVars>>

check_session_status(session_token) ==
    LET st == session_status(users, session_token, now) IN
    /\ last' = Call("check_session_status", <<session_token>>, session_token,
                    st.user, st.branch, st.result, {}, st.num)
    /\ UNCHANGED <<users, expenses, now, nextToken, nextExpenseId, issued>>
    /\ UNCHANGED <<raceVars, testVars>>

\* the $set of logout_user and of the expiry purge
clear_token_only(doc) == [doc EXCEPT !.session_token = NULL]
clear_session(doc) ==
    [doc EXCEPT !.session_token = NULL, !.session_expires_at = NULL]

\* a logout that ends the session of every user
logout_user_everyone(session_token) ==
    LET uid == find_by_session_token(users, session_token) IN
    /\ users' = IF uid = NULL THEN users
                ELSE [u \in 1..Len(users) |-> clear_session(users[u])]
    /\ last' = IF uid # NULL
               THEN Call("logout_user", <<session_token>>, session_token, uid,
                         "ok", "Logged out successfully", {}, 0)
               ELSE Call("logout_user", <<session_token>>, session_token, NULL,
                         "invalid", "Invalid session token", {}, 0)
    /\ UNCHANGED <<expenses, now, nextToken, nextExpenseId, issued>>
    /\ UNCHANGED <<raceVars, testVars>>

\* update_one({"session_token": t}, ...): modified_count counts the documents
\* the update changed
logout_user(session_token) ==
    LET uid == find_by_session_token(users, session_token)
        modified == uid # NULL /\ clear_session(users[uid]) # users[uid]
    IN
    /\ users' = IF uid = NULL THEN users
                ELSE [users EXCEPT ![uid] = clear_session(@)]
    /\ last' = IF modified
               THEN Call("logout_user", <<session_token>>, session_token, uid,
                         "ok", "Logged out successfully", {}, 0)
               ELSE Call("logout_user", <<session_token>>, session_token, NULL,
                         "invalid", "Invalid session token", {}, 0)
    /\ UNCHANGED <<expenses, now, nextToken, nextExpenseId, issued>>
    /\ UNCHANGED <<raceVars, testVars>>

\* get_user_from_token returns the user document or None.  `user` is the _id
\* of the document returned (NULL for None), `users` the collection after the
\* call, `branch` the return statement taken: "invalid" (line 279, no holder),
\* "expired" (line 289, after the purge) or "valid" (line 291).
get_user_from_token_no_purge(us, session_token, clock) ==
    LET uid == find_by_session_token(us, session_token) IN
    IF uid = NULL
    THEN [user |-> NULL, users |-> us, branch |-> "invalid"]
    ELSE IF us[uid].session_expires_at # NULL
            /\ is_expired(clock, us[uid].session_expires_at)
    THEN [user |-> NULL, users |-> us, branch |-> "expired"]
    ELSE [user |-> uid, users |-> us, branch |-> "valid"]

\* a resolver that renews the expiry of the session it accepts
get_user_from_token_sliding(us, session_token, clock) ==
    LET uid == find_by_session_token(us, session_token) IN
    IF uid = NULL
    THEN [user |-> NULL, users |-> us, branch |-> "invalid"]
    ELSE IF us[uid].session_expires_at # NULL
            /\ is_expired(clock, us[uid].session_expires_at)
    THEN [user |-> NULL,
          users |-> [us EXCEPT ![uid] = clear_session(@)],
          branch |-> "expired"]
    ELSE [user |-> uid,
          users |-> [us EXCEPT ![uid].session_expires_at = expires_at(clock)],
          branch |-> "valid"]

\* a resolver that takes a session without expiry for an expired one
get_user_from_token_legacy_expired(us, session_token, clock) ==
    LET uid == find_by_session_token(us, session_token) IN
    IF uid = NULL
    THEN [user |-> NULL, users |-> us, branch |-> "invalid"]
    ELSE IF us[uid].session_expires_at = NULL
            \/ is_expired(clock, us[uid].session_expires_at)
    THEN [user |-> NULL,
          users |-> [us EXCEPT ![uid] = clear_session(@)],
          branch |-> "expired"]
    ELSE [user |-> uid, users |-> us, branch |-> "valid"]

get_user_from_token(us, session_token, clock) ==
    LET uid == find_by_session_token(us, session_token) IN
    IF uid = NULL
    THEN [user |-> NULL, users |-> us, branch |-> "invalid"]
    ELSE IF us[uid].session_expires_at # NULL
            /\ is_expired(clock, us[uid].session_expires_at)
    THEN [user |-> NULL,
          users |-> [us EXCEPT ![uid] = clear_session(@)],
          branch |-> "expired"]
    ELSE [user |-> uid, users |-> us, branch |-> "valid"]

\* a direct call of get_user_from_token (the spec's Validate)
Validate(session_token) ==
    LET v == get_user_from_token(users, session_token, now) IN
    /\ users' = v.users
    /\ last' = Call("get_user_from_token", <<session_token>>, session_token,
                    v.user, v.branch,
                    IF v.user = NULL THEN "None" ELSE "user", {}, 0)
    /\ UNCHANGED <<expenses, now, nextToken, nextExpenseId, issued>>
    /\ UNCHANGED <<raceVars, testVars>>

\* the wall clock moves on by `hours` between two calls
Tick(hours) ==
    /\ now + hours <= MaxClock
    /\ now' = now + hours
    /\ last' = Call("tick", <<>>, NULL, NULL, "none", "none", {}, 0)
    /\ UNCHANGED <<users, expenses, nextToken, nextExpenseId, issued>>
    /\ UNCHANGED <<raceVars, testVars>>

(***************************************************************************)
(* Access Mediator and expense tools (src/main.py).                        *)
(***************************************************************************)
\* `if not user: return "Invalid session token. Please login first."`
rejected_never(v) == FALSE
rejected(v) == v.user = NULL

\* the {"user_id": user["_id"]} part of every expense query
owned_by_anyone(e, uid) == TRUE
owned_by(e, uid) == e.user_id = uid

\* datetime.now().strftime("%Y-%m-%d"): the calendar day, as a day number
\* (well-formed YYYY-MM-DD strings compare as their days do)
date_of(clock) == clock \div 24

\* the (start_date, end_date, category) the date-range tools are called with:
\* one day, two days filtered by a category, the second day, an empty range
DateQueries == {<<0, 0, "">>, <<0, 1, "Food">>, <<1, 1, "tea">>, <<1, 0, "">>}

\* {"$regex": term, "$options": "i"} on the strings of the model:
\* re.search(term, text, re.IGNORECASE)
regex_i(term, text) ==
    <<term, text>> \in {<<"tea", "Tea">>, <<"tea", "tea">>,
                        <<"o", "coffee">>, <<"o", "Food">>}

RECURSIVE SumAmounts(_)
SumAmounts(S) ==
    IF S = {} THEN 0
    ELSE LET e == CHOOSE x \in S : TRUE IN e.amount + SumAmounts(S \ {e})

Unauthenticated(op, args, session_token, v) ==
    Call(op, args, session_token, NULL, v.branch,
         "Invalid session token. Please login first.", {}, 0)

expense_doc(id, uid, description, amount, category, clock) ==
    [id |-> id, user_id |-> uid, description |-> description,
     amount |-> amount, category |-> category, date |-> date_of(clock)]

add_expense(session_token, description, amount, category) ==
    LET v == get_user_from_token(users, session_token, now)
        args == <<description, amount, category>>
    IN
    /\ users' = v.users
    /\ IF rejected(v)
       THEN /\ UNCHANGED <<expenses, nextExpenseId>>
            /\ last' = Unauthenticated("add_expense", args, session_token, v)
       ELSE /\ nextExpenseId <= MaxExpenses
            /\ expenses' = expenses \cup
                 {expense_doc(nextExpenseId, v.user, description, amount,
                              category, now)}
            /\ nextExpenseId' = nextExpenseId + 1
            /\ last' = Call("add_expense", args, session_token, v.user, v.branch,
                            "Expense added successfully",
                            {expense_doc(nextExpenseId, v.user, description,
                                         amount, category, now)}, 0)
    /\ UNCHANGED <<now, nextToken, issued>>
    /\ UNCHANGED <<raceVars, testVars>>

\* a tool that only reads the expenses: `found` is the result of its query
ReadTool(op, args, session_token, v, found, num, none_found) ==
    /\ users' = v.users
    /\ last' = IF rejected(v)
               THEN Unauthenticated(op, args, session_token, v)
               ELSE IF found # {}
               THEN Call(op, args, session_token, v.user, v.branch, "found",
                         found, num)
               ELSE Call(op, args, session_token, v.user, v.branch, none_found,
                         {}, 0)
    /\ UNCHANGED <<expenses, now, nextToken, nextExpenseId, issued>>
    /\ UNCHANGED <<raceVars, testVars>>

list_all_expense(session_token) ==
    LET v == get_user_from_token(users, session_token, now)
        found == {e \in expenses : owned_by(e, v.user)}
    IN ReadTool("list_all_expense", <<>>, session_token, v, found, 0,
                "No expenses found for your account")

search_expense(session_token, search_term) ==
    LET v == get_user_from_token(users, session_token, now)
        found == {e \in expenses :
                    /\ owned_by(e, v.user)
                    /\ \/ regex_i(search_term, e.description)
                       \/ regex_i(search_term, e.category)}
    IN ReadTool("search_expense", <<>>, session_token, v, found, 0,
                "No expenses found matching")

\* the query of both date-range tools; `if category:` is false for None and ""
date_range_query(uid, start_date, end_date, category) ==
    {e \in expenses :
        /\ owned_by(e, uid)
        /\ e.date >= start_date /\ e.date <= end_date
        /\ category # "" => e.category = category}

get_expense_details_by_date_and_category(session_token, start_date, end_date, category) ==
    LET v == get_user_from_token(users, session_token, now)
        found == date_range_query(v.user, start_date, end_date, category)
    IN ReadTool("get_expense_details_by_date_and_category",
                <<>>, session_token, v, found, 0,
                "No expenses found between")

\* the summary also reports the grand total of the amounts it found
get_expense_summary_by_date_and_category(session_token, start_date, end_date, category) ==
    LET v == get_user_from_token(users, session_token, now)
        found == date_range_query(v.user, start_date, end_date, category)
    IN ReadTool("get_expense_summary_by_date_and_category",
                <<>>, session_token, v, found,
                SumAmounts(found), "No expenses found between")

\* ObjectId(expense_id) raises InvalidId unless the string is 24 hex digits;
\* 0 stands for such a string, n >= 1 for the id of the n-th expense inserted
valid_object_id(expense_id) == expense_id >= 1

get_expense_details(session_token, expense_id) ==
    LET v == get_user_from_token(users, session_token, now)
        found == {e \in expenses : e.id = expense_id /\ owned_by(e, v.user)}
    IN
    IF ~rejected(v) /\ ~valid_object_id(expense_id)
    THEN /\ users' = v.users
         /\ last' = Call("get_expense_details", <<>>, session_token,
                         v.user, v.branch, "Error getting expense", {}, 0)
         /\ UNCHANGED <<expenses, now, nextToken, nextExpenseId, issued>>
         /\ UNCHANGED <<raceVars, testVars>>
    ELSE ReadTool("get_expense_details", <<>>, session_token, v,
                  found, 0, "not found or doesn't belong to you")

delete_expense(session_token, description) ==
    LET v == get_user_from_token(users, session_token, now)
        found == {e \in expenses :
                    owned_by(e, v.user) /\ e.description = description}
    IN
    /\ users' = v.users
    /\ IF rejected(v)
       THEN /\ expenses' = expenses
            /\ last' = Unauthenticated("delete_expense", <<description>>,
                                       session_token, v)
       ELSE /\ expenses' = expenses \ found
            /\ last' = Call("delete_expense", <<description>>, session_token,
                            v.user, v.branch,
                            IF found # {} THEN "Deleted"
                            ELSE "No expenses found with description",
                            found, Cardinality(found))
    /\ UNCHANGED <<now, nextToken, nextExpenseId, issued>>
    /\ UNCHANGED <<raceVars, testVars>>

\* a modify that also stamps the expense with the day of the change
modify_expense_restamped(session_token, description, amount) ==
    LET v == get_user_from_token(users, session_token, now)
        found == {e \in expenses :
                    owned_by(e, v.user) /\ e.description = description}
        modified == {e \in found : e.amount # amount}
    IN
    /\ users' = v.users
    /\ IF rejected(v)
       THEN /\ expenses' = expenses
            /\ last' = Unauthenticated("modify_expense", <<description, amount>>,
                                       session_token, v)
       ELSE /\ expenses' = {IF e \in found
                            THEN [e EXCEPT !.amount = amount,
                                           !.date = date_of(now)]
                            ELSE e : e \in expenses}
            /\ last' = Call("modify_expense", <<description, amount>>,
                            session_token, v.user, v.branch,
                            IF modified # {} THEN "Modified"
                            ELSE "No expenses found with description",
                            found, Cardinality(modified))
    /\ UNCHANGED <<now, nextToken, nextExpenseId, issued>>
    /\ UNCHANGED <<raceVars, testVars>>

\* update_many: modified_count counts the documents whose amount changed
modify_expense(session_token, description, amount) ==
    LET v == get_user_from_token(users, session_token, now)
        found == {e \in expenses :
                    owned_by(e, v.user) /\ e.description = description}
        modified == {e \in found : e.amount # amount}
    IN
    /\ users' = v.users
    /\ IF rejected(v)
       THEN /\ expenses' = expenses
            /\ last' = Unauthenticated("modify_expense", <<description, amount>>,
                                       session_token, v)
       ELSE /\ expenses' = {IF e \in found THEN [e EXCEPT !.amount = amount]
                            ELSE e : e \in expenses}
            /\ last' = Call("modify_expense", <<description, amount>>,
                            session_token, v.user, v.branch,
                            IF modified # {} THEN "Modified"
                            ELSE "No expenses found with description",
                            found, Cardinality(modified))
    /\ UNCHANGED <<now, nextToken, nextExpenseId, issued>>
    /\ UNCHANGED <<raceVars, testVars>>

(***************************************************************************)
(* The server of src/main.py, one call at a time.                          *)
(***************************************************************************)
\* a string no login has returned
BogusToken == MaxTokens + 1

\* the tokens a caller can present: those issued so far and a made-up one.
\* Every tool declares session_token: str, so a caller presents a string and
\* never the null that a logged-out document holds.
PresentedTokens == 1..(nextToken - 1) \cup {BogusToken}

IdleReq == [username |-> "", email |-> "", password |-> "", base |-> 0]

RaceIdle ==
    /\ pc = [p \in {1, 2} |-> "idle"]
    /\ req = [p \in {1, 2} |-> IdleReq]
    /\ ret = [p \in {1, 2} |-> "none"]

Init ==
    /\ users = <<>>
    /\ expenses = {}
    /\ now = 0
    /\ nextToken = 1
    /\ nextExpenseId = 1
    /\ issued = <<>>
    /\ last = NoCall
    /\ RaceIdle
    /\ rows = {}
    /\ nextRowId = 1

\* register, login, logout, Validate, CheckStatus and the clock
Next ==
    \/ \E u \in Names, e \in Emails, p \in Passwords : register_user(u, e, p)
    \/ \E u \in Names \cup Emails, p \in Passwords : login_user(u, p)
    \/ \E t \in PresentedTokens : check_session_status(t)
    \/ \E t \in PresentedTokens : logout_user(t)
    \/ \E t \in PresentedTokens : Validate(t)
    \/ \E h \in {SESSION_TIMEOUT_HOURS, SESSION_TIMEOUT_HOURS + 1} : Tick(h)

Spec == Init /\ [][Next]_vars

(***************************************************************************)
(* The same calls over a store that already holds a document with a        *)
(* session_token and no session_expires_at: the case the tests             *)
(* `if user.get("session_expires_at")` (line 282) and                      *)
(* `if not user.get("session_expires_at")` (line 211) are written for.     *)
(***************************************************************************)
\* the token of the stored document; no login of the behaviour returns it
LegacyToken == BogusToken + 1

LegacyTokens == PresentedTokens \cup {LegacyToken}

LegacyInit ==
    /\ users = <<[user_doc("alice", "a@x.com", "pw1")
                    EXCEPT !.session_token = LegacyToken]>>
    /\ expenses = {}
    /\ now = 0
    /\ nextToken = 1
    /\ nextExpenseId = 1
    /\ issued = <<>>
    /\ last = NoCall
    /\ RaceIdle
    /\ rows = {}
    /\ nextRowId = 1

LegacyNext ==
    \/ \E u \in Names, e \in Emails, p \in Passwords : register_user(u, e, p)
    \/ \E u \in Names \cup Emails, p \in Passwords : login_user(u, p)
    \/ \E t \in LegacyTokens : check_session_status(t)
    \/ \E t \in LegacyTokens : logout_user(t)
    \/ \E t \in LegacyTokens : Validate(t)
    \/ \E h \in {SESSION_TIMEOUT_HOURS, SESSION_TIMEOUT_HOURS + 1} : Tick(h)

LegacySpec == LegacyInit /\ [][LegacyNext]_vars

\* the accounts of the expense scenarios
Accounts == {<<"alice", "a@x.com", "pw1">>, <<"bob", "alice", "pw2">>}

\* the expense tools, called by the users of Accounts
DataNext ==
    \/ \E a \in Accounts : register_user(a[1], a[2], a[3])
    \/ \E a \in Accounts : login_user(a[1], a[3])
    \/ \E t \in PresentedTokens : logout_user(t)
    \/ Tick(SESSION_TIMEOUT_HOURS + 1)
    \/ \E t \in PresentedTokens, k \in ExpenseKinds, a \in Amounts :
            add_expense(t, k[1], a, k[2])
    \/ \E t \in PresentedTokens : list_all_expense(t)
    \/ \E t \in PresentedTokens, s \in SearchTerms : search_expense(t, s)
    \/ \E t \in PresentedTokens, q \in DateQueries :
            get_expense_details_by_date_and_category(t, q[1], q[2], q[3])
    \/ \E t \in PresentedTokens, q \in DateQueries :
            get_expense_summary_by_date_and_category(t, q[1], q[2], q[3])
    \/ \E t \in PresentedTokens, id \in 0..MaxExpenses :
            get_expense_details(t, id)
    \/ \E t \in PresentedTokens, d \in Descriptions : delete_expense(t, d)
    \/ \E t \in PresentedTokens, d \in Descriptions, a \in Amounts :
            modify_expense(t, d, a)

DataSpec == Init /\ [][DataNext]_vars

(***************************************************************************)
(* get_user_from_token called as the plain function it is                  *)
(* (src/main.py:261): nothing on that path tests that the argument is a    *)
(* string, so the value presented may be None.                             *)
(***************************************************************************)
ResolverTokens == PresentedTokens \cup {NULL}

ResolverNext ==
    \/ \E a \in Accounts : register_user(a[1], a[2], a[3])
    \/ \E a \in Accounts : login_user(a[1], a[3])
    \/ \E t \in PresentedTokens : logout_user(t)
    \/ Tick(SESSION_TIMEOUT_HOURS + 1)
    \/ \E t \in ResolverTokens : Validate(t)

ResolverSpec == Init /\ [][ResolverNext]_vars

(***************************************************************************)
(* Storage faults.  A store call that fails (no connection, a failed write) *)
(* raises PyMongoError; `fault` names the store call of the handler that    *)
(* raises.  A fault action is the handler run with that call failing, and   *)
(* is taken only when the handler reaches the call.                         *)
(***************************************************************************)
\* get_user_from_token: line 292 catches the error and returns None
get_user_from_token_fault(us, session_token, clock, fault) ==
    LET uid == find_by_session_token(us, session_token) IN
    IF fault = "find_one"
    THEN [user |-> NULL, users |-> us, branch |-> "fault"]
    ELSE IF uid = NULL
    THEN [user |-> NULL, users |-> us, branch |-> "invalid"]
    ELSE IF us[uid].session_expires_at # NULL
            /\ is_expired(clock, us[uid].session_expires_at)
    THEN [user |-> NULL, users |-> us, branch |-> "fault"]
    ELSE [user |-> uid, users |-> us, branch |-> "valid"]

\* a direct call of get_user_from_token during which a store call fails
ValidateFault(session_token, fault) ==
    LET v == get_user_from_token_fault(users, session_token, now, fault) IN
    /\ v.branch = "fault"
    /\ users' = v.users
    /\ last' = Call("get_user_from_token", <<session_token>>, session_token,
                    v.user, v.branch,
                    IF v.user = NULL THEN "None" ELSE "user", {}, 0)
    /\ UNCHANGED <<expenses, now, nextToken, nextExpenseId, issued>>
    /\ UNCHANGED <<raceVars, testVars>>

\* register_user: line 137 turns the error into "Error registering user"
register_user_fault(username, email, password, fault) ==
    /\ \/ fault = "find_one"
       \/ /\ fault = "insert_one"
          /\ ~username_taken(users, username)
          /\ ~email_taken(users, email)
    /\ last' = Call("register_user", <<username, email, password>>, NULL, NULL,
                    "fault", "Error registering user", {}, 0)
    /\ UNCHANGED <<users, expenses, now, nextToken, nextExpenseId, issued>>
    /\ UNCHANGED <<raceVars, testVars>>

\* login_user: line 187 turns the error into "Error during login"
login_user_fault(username, password, fault) ==
    LET uid == find_by_username_or_email(users, username) IN
    /\ \/ fault = "find_one"
       \/ /\ fault = "update_one"
          /\ uid # NULL
          /\ password_ok(users[uid], password)
    /\ last' = Call("login_user", <<username, password>>, NULL, NULL,
                    "fault", "Error during login", {}, 0)
    /\ UNCHANGED <<users, expenses, now, nextToken, nextExpenseId, issued>>
    /\ UNCHANGED <<raceVars, testVars>>

\* check_session_status: line 229 turns the error into "Error checking session"
check_session_status_fault(session_token) ==
    /\ last' = Call("check_session_status", <<session_token>>, session_token,
                    NULL, "fault", "Error checking session", {}, 0)
    /\ UNCHANGED <<users, expenses, now, nextToken, nextExpenseId, issued>>
    /\ UNCHANGED <<raceVars, testVars>>

\* logout_user: line 257 turns the error into "Error during logout"
logout_user_fault(session_token) ==
    /\ last' = Call("logout_user", <<session_token>>, session_token, NULL,
                    "fault", "Error during logout", {}, 0)
    /\ UNCHANGED <<users, expenses, now, nextToken, nextExpenseId, issued>>
    /\ UNCHANGED <<raceVars, testVars>>

\* add_expense: a fault inside get_user_from_token comes back as None, and the
\* tool answers as for any rejected token (line 376); a fault of insert_one
\* is caught at line 392
add_expense_fault(session_token, description, amount, category, fault) ==
    LET v == IF fault = "insert_one"
             THEN get_user_from_token(users, session_token, now)
             ELSE get_user_from_token_fault(users, session_token, now, fault)
        args == <<description, amount, category>>
    IN
    /\ IF fault = "insert_one" THEN ~rejected(v) ELSE v.branch = "fault"
    /\ users' = v.users
    /\ last' = IF rejected(v)
               THEN Unauthenticated("add_expense", args, session_token, v)
               ELSE Call("add_expense", args, session_token, v.user, "fault",
                         "Error adding expense", {}, 0)
    /\ UNCHANGED <<expenses, now, nextToken, nextExpenseId, issued>>
    /\ UNCHANGED <<raceVars, testVars>>

FaultNext ==
    \/ \E a \in Accounts : register_user(a[1], a[2], a[3])
    \/ \E a \in Accounts : login_user(a[1], a[3])
    \/ Tick(SESSION_TIMEOUT_HOURS + 1)
    \/ \E t \in PresentedTokens, k \in ExpenseKinds, a \in Amounts :
            add_expense(t, k[1], a, k[2])
    \/ \E a \in Accounts, f \in {"find_one", "insert_one"} :
            register_user_fault(a[1], a[2], a[3], f)
    \/ \E a \in Accounts, f \in {"find_one", "update_one"} :
            login_user_fault(a[1], a[3], f)
    \/ \E t \in PresentedTokens : check_session_status_fault(t)
    \/ \E t \in PresentedTokens : logout_user_fault(t)
    \/ \E t \in PresentedTokens, f \in {"find_one", "update_one"} :
            ValidateFault(t, f)
    \/ \E t \in PresentedTokens, k \in ExpenseKinds, a \in Amounts,
          f \in {"find_one", "update_one", "insert_one"} :
            add_expense_fault(t, k[1], a, k[2], f)

FaultSpec == Init /\ [][FaultNext]_vars

(***************************************************************************)
(* Two register_user requests side by side (src/main.py:114-138): each     *)
(* store call is one step, and the store runs the calls one at a time.     *)
(* A request starts while the other one is still running, so the two       *)
(* requests of a round overlap; EndRound starts the next round.            *)
(***************************************************************************)
Procs == {1, 2}

Other(p) == IF p = 1 THEN 2 ELSE 1

\* the request enters register_user; base is the size of the collection then
reg_call(p, username, email, password) ==
    /\ pc[p] = "idle"
    /\ pc[Other(p)] # "done"
    /\ pc' = [pc EXCEPT ![p] = "find_username"]
    /\ req' = [req EXCEPT ![p] = [username |-> username, email |-> email,
                                  password |-> password, base |-> Len(users)]]
    /\ UNCHANGED <<ret, mainVars, testVars>>

\* line 119: find_one({"username": username})
reg_find_username(p) ==
    /\ pc[p] = "find_username"
    /\ IF username_taken(users, req[p].username)
       THEN /\ pc' = [pc EXCEPT ![p] = "done"]
            /\ ret' = [ret EXCEPT ![p] = "Username already exists"]
       ELSE /\ pc' = [pc EXCEPT ![p] = "find_email"]
            /\ ret' = ret
    /\ UNCHANGED <<req, mainVars, testVars>>

\* line 122: find_one({"email": email})
reg_find_email(p) ==
    /\ pc[p] = "find_email"
    /\ IF email_taken(users, req[p].email)
       THEN /\ pc' = [pc EXCEPT ![p] = "done"]
            /\ ret' = [ret EXCEPT ![p] = "Email already registered"]
       ELSE /\ pc' = [pc EXCEPT ![p] = "insert"]
            /\ ret' = ret
    /\ UNCHANGED <<req, mainVars, testVars>>

\* line 135: insert_one; the unique indexes of init_database make it raise
\* DuplicateKeyError, which line 137 catches as a PyMongoError
reg_insert(p) ==
    LET doc == user_doc(req[p].username, req[p].email, req[p].password) IN
    /\ pc[p] = "insert"
    /\ IF duplicate_key(users, doc)
       THEN /\ users' = users
            /\ ret' = [ret EXCEPT ![p] = "Error registering user"]
       ELSE /\ Len(users) < MaxUsers
            /\ users' = Append(users, doc)
            /\ ret' = [ret EXCEPT ![p] = "User registered successfully"]
    /\ pc' = [pc EXCEPT ![p] = "done"]
    /\ UNCHANGED <<req, expenses, now, nextToken, nextExpenseId, issued, last,
                   testVars>>

\* both requests have returned
EndRound ==
    /\ \A p \in Procs : pc[p] = "done"
    /\ pc' = [p \in Procs |-> "idle"]
    /\ req' = [p \in Procs |-> IdleReq]
    /\ ret' = [p \in Procs |-> "none"]
    /\ UNCHANGED <<mainVars, testVars>>

RaceNext ==
    \/ \E p \in Procs, u \in Names, e \in Emails, w \in Passwords :
            reg_call(p, u, e, w)
    \/ \E p \in Procs : reg_find_username(p)
    \/ \E p \in Procs : reg_find_email(p)
    \/ \E p \in Procs : reg_insert(p)
    \/ EndRound

RaceSpec == Init /\ [][RaceNext]_vars

(***************************************************************************)
(* Two session requests side by side: each is a login_user                 *)
(* (src/main.py:153-186) or a get_user_from_token (src/main.py:271-291),   *)
(* one store call per step.  Between two rounds users register and log in, *)
(* and the clock moves, with no request running.                           *)
(***************************************************************************)
Quiet == \A p \in Procs : pc[p] = "idle"

\* the arguments of a request, the user document it has read (uid) and the
\* collection as it was when the request started
SessionReq(op, username, password, session_token) ==
    [op |-> op, username |-> username, password |-> password,
     token |-> session_token, uid |-> NULL, before |-> users]

login_call(p, username, password) ==
    /\ pc[p] = "idle"
    /\ pc[Other(p)] # "done"
    /\ pc' = [pc EXCEPT ![p] = "login_find_one"]
    /\ req' = [req EXCEPT
                 ![p] = SessionReq("login_user", username, password, NULL)]
    /\ UNCHANGED <<ret, mainVars, testVars>>

\* lines 158-174: find_one, the password check and generate_session_token
login_find_one(p) ==
    LET uid == find_by_username_or_email(users, req[p].username) IN
    /\ pc[p] = "login_find_one"
    /\ IF uid = NULL \/ ~password_ok(users[uid], req[p].password)
       THEN /\ pc' = [pc EXCEPT ![p] = "done"]
            /\ ret' = [ret EXCEPT ![p] = "Invalid username or password"]
            /\ UNCHANGED <<req, nextToken, issued>>
       ELSE /\ nextToken <= MaxTokens
            /\ pc' = [pc EXCEPT ![p] = "login_update_one"]
            /\ req' = [req EXCEPT ![p].uid = uid,
                                  ![p].token = generate_session_token]
            /\ nextToken' = nextToken + 1
            /\ issued' = Append(issued, uid)
            /\ ret' = ret
    /\ UNCHANGED <<users, expenses, now, nextExpenseId, last, testVars>>

\* a write that refuses to overwrite a document changed since it was read
login_update_one_exclusive(p) ==
    /\ pc[p] = "login_update_one"
    /\ IF users[req[p].uid] = req[p].before[req[p].uid]
       THEN /\ users' = [users EXCEPT
                           ![req[p].uid] = login_update(@, req[p].token, now)]
            /\ ret' = [ret EXCEPT ![p] = "Login successful"]
       ELSE /\ users' = users
            /\ ret' = [ret EXCEPT ![p] = "Error during login"]
    /\ pc' = [pc EXCEPT ![p] = "done"]
    /\ UNCHANGED <<req, expenses, now, nextToken, nextExpenseId, issued, last,
                   testVars>>

\* lines 177-186: update_one({"_id": user["_id"]}, {"$set": ...}) and return
login_update_one(p) ==
    /\ pc[p] = "login_update_one"
    /\ users' = [users EXCEPT
                   ![req[p].uid] = login_update(@, req[p].token, now)]
    /\ ret' = [ret EXCEPT ![p] = "Login successful"]
    /\ pc' = [pc EXCEPT ![p] = "done"]
    /\ UNCHANGED <<req, expenses, now, nextToken, nextExpenseId, issued, last,
                   testVars>>

validate_call(p, session_token) ==
    /\ pc[p] = "idle"
    /\ pc[Other(p)] # "done"
    /\ pc' = [pc EXCEPT ![p] = "validate_find_one"]
    /\ req' = [req EXCEPT
                 ![p] = SessionReq("get_user_from_token", "", "", session_token)]
    /\ UNCHANGED <<ret, mainVars, testVars>>

\* lines 276-283 and 291: find_one and the expiry test
validate_find_one(p) ==
    LET uid == find_by_session_token(users, req[p].token) IN
    /\ pc[p] = "validate_find_one"
    /\ IF uid = NULL
       THEN /\ pc' = [pc EXCEPT ![p] = "done"]
            /\ ret' = [ret EXCEPT ![p] = "None"]
            /\ req' = req
       ELSE IF users[uid].session_expires_at # NULL
               /\ is_expired(now, users[uid].session_expires_at)
       THEN /\ pc' = [pc EXCEPT ![p] = "validate_purge"]
            /\ req' = [req EXCEPT ![p].uid = uid]
            /\ ret' = ret
       ELSE /\ pc' = [pc EXCEPT ![p] = "done"]
            /\ ret' = [ret EXCEPT ![p] = "user"]
            /\ req' = req
    /\ UNCHANGED <<mainVars, testVars>>

\* a purge that reports an error when the session is already cleared
validate_purge_strict(p) ==
    /\ pc[p] = "validate_purge"
    /\ users' = [users EXCEPT ![req[p].uid] = clear_session(@)]
    /\ ret' = [ret EXCEPT
                 ![p] = IF users[req[p].uid].session_token = NULL
                        THEN "Error" ELSE "None"]
    /\ pc' = [pc EXCEPT ![p] = "done"]
    /\ UNCHANGED <<req, expenses, now, nextToken, nextExpenseId, issued, last,
                   testVars>>

\* lines 285-289: update_one({"_id": user["_id"]}, ...) clears the session of
\* the document read, whatever token it holds by now; then return None
validate_purge(p) ==
    /\ pc[p] = "validate_purge"
    /\ users' = [users EXCEPT ![req[p].uid] = clear_session(@)]
    /\ ret' = [ret EXCEPT ![p] = "None"]
    /\ pc' = [pc EXCEPT ![p] = "done"]
    /\ UNCHANGED <<req, expenses, now, nextToken, nextExpenseId, issued, last,
                   testVars>>

SessionRaceNext ==
    \/ Quiet /\ \E a \in Accounts : register_user(a[1], a[2], a[3])
    \/ Quiet /\ \E a \in Accounts : login_user(a[1], a[3])
    \/ Quiet /\ Tick(SESSION_TIMEOUT_HOURS + 1)
    \/ \E p \in Procs, a \in Accounts : login_call(p, a[1], a[3])
    \/ \E p \in Procs : login_find_one(p)
    \/ \E p \in Procs : login_update_one(p)
    \/ \E p \in Procs, t \in PresentedTokens : validate_call(p, t)
    \/ \E p \in Procs : validate_find_one(p)
    \/ \E p \in Procs : validate_purge(p)
    \/ EndRound

SessionRaceSpec == Init /\ [][SessionRaceNext]_vars

(***************************************************************************)
(* An expense request side by side with logouts and purges.  A request of  *)
(* add_expense, delete_expense or modify_expense is two steps: the call of *)
(* get_user_from_token (lines 374, 680, 711) and the write to the expenses *)
(* (lines 390, 685, 716).  A logout_user of the token, one update_one, and *)
(* another caller's get_user_from_token of it run in between, and the      *)
(* clock moves.                                                            *)
(***************************************************************************)
WriteOps == {"add_expense", "delete_expense", "modify_expense"}

\* one expense request runs at a time: the race is with logout and purge
expense_call(p, op, session_token, description, amount, category) ==
    /\ Quiet
    /\ pc' = [pc EXCEPT ![p] = "expense_resolve"]
    /\ req' = [req EXCEPT
                 ![p] = [op |-> op, token |-> session_token,
                         description |-> description, amount |-> amount,
                         category |-> category, uid |-> NULL]]
    /\ UNCHANGED <<ret, mainVars, testVars>>

\* user = get_user_from_token(session_token); if not user: return ...
expense_resolve(p) ==
    LET v == get_user_from_token(users, req[p].token, now) IN
    /\ pc[p] = "expense_resolve"
    /\ users' = v.users
    /\ IF rejected(v)
       THEN /\ pc' = [pc EXCEPT ![p] = "done"]
            /\ ret' = [ret EXCEPT
                         ![p] = "Invalid session token. Please login first."]
            /\ req' = req
       ELSE /\ pc' = [pc EXCEPT ![p] = "expense_write"]
            /\ req' = [req EXCEPT ![p].uid = v.user]
            /\ ret' = ret
    /\ UNCHANGED <<expenses, now, nextToken, nextExpenseId, issued, last,
                   testVars>>

\* insert_one, delete_many or update_many with the user read at the first step
expense_write(p) ==
    LET r == req[p]
        found == {e \in expenses :
                    owned_by(e, r.uid) /\ e.description = r.description}
    IN
    /\ pc[p] = "expense_write"
    /\ IF r.op = "add_expense"
       THEN /\ nextExpenseId <= MaxExpenses
            /\ expenses' = expenses \cup
                 {expense_doc(nextExpenseId, r.uid, r.description, r.amount,
                              r.category, now)}
            /\ nextExpenseId' = nextExpenseId + 1
            /\ ret' = [ret EXCEPT ![p] = "Expense added successfully"]
       ELSE IF r.op = "delete_expense"
       THEN /\ expenses' = expenses \ found
            /\ nextExpenseId' = nextExpenseId
            /\ ret' = [ret EXCEPT
                         ![p] = IF found # {} THEN "Deleted"
                                ELSE "No expenses found with description"]
       ELSE /\ expenses' = {IF e \in found THEN [e EXCEPT !.amount = r.amount]
                            ELSE e : e \in expenses}
            /\ nextExpenseId' = nextExpenseId
            /\ ret' = [ret EXCEPT
                         ![p] = IF \E e \in found : e.amount # r.amount
                                THEN "Modified"
                                ELSE "No expenses found with description"]
    /\ pc' = [pc EXCEPT ![p] = "done"]
    /\ UNCHANGED <<req, users, now, nextToken, issued, last, testVars>>

\* the request has returned to its caller
expense_return(p) ==
    /\ pc[p] = "done"
    /\ pc' = [pc EXCEPT ![p] = "idle"]
    /\ req' = [req EXCEPT ![p] = IdleReq]
    /\ ret' = [ret EXCEPT ![p] = "none"]
    /\ UNCHANGED <<mainVars, testVars>>

\* the (description, category) the racing requests are called with
RaceKinds == {<<"coffee", "Food">>}

\* the tokens of the requests that are running
RunningTokens ==
    {req[p].token : p \in {q \in Procs : pc[q] \in {"expense_resolve",
                                                       "expense_write"}}}

DataRaceNext ==
    \/ Quiet /\ \E a \in Accounts : register_user(a[1], a[2], a[3])
    \/ Quiet /\ \E a \in Accounts : login_user(a[1], a[3])
    \/ \E t \in RunningTokens : logout_user(t)
    \/ \E t \in RunningTokens : Validate(t)
    \/ Tick(SESSION_TIMEOUT_HOURS + 1)
    \/ \E p \in Procs, op \in WriteOps, t \in PresentedTokens,
          k \in RaceKinds, a \in Amounts :
            expense_call(p, op, t, k[1], a, k[2])
    \/ \E p \in Procs : expense_resolve(p)
    \/ \E p \in Procs : expense_write(p)
    \/ \E p \in Procs : expense_return(p)

DataRaceSpec == Init /\ [][DataRaceNext]_vars

(***************************************************************************)
(* The SQLite server of src/test.py: the same tools over one table         *)
(* `expenses` with no users and no session tokens.                         *)
(***************************************************************************)
\* a call of test.py: it takes no token and resolves no user
SqliteCall(op, args, result, matched, num) ==
    Call(op, args, NULL, NULL, "none", result, matched, num)

\* date TEXT DEFAULT CURRENT_TIMESTAMP: the time of the insert
sqlite_row(id, description, amount, category, clock) ==
    [id |-> id, description |-> description, amount |-> amount,
     category |-> category, date |-> clock]

\* description LIKE '%term%' on the strings of the model (LIKE ignores case)
like_i(term, text) == regex_i(term, text)

\* date BETWEEN start AND end compares the stored 'YYYY-MM-DD HH:MM:SS' with
\* 'YYYY-MM-DD' strings: a timestamp of the day `end` sorts after `end`
sqlite_between(clock, start_date, end_date) ==
    date_of(clock) >= start_date /\ date_of(clock) < end_date

SqliteRead(op, found, num, none_found) ==
    /\ last' = IF found # {} THEN SqliteCall(op, <<>>, "found", found, num)
               ELSE SqliteCall(op, <<>>, none_found, {}, 0)
    /\ UNCHANGED <<rows, nextRowId>>
    /\ UNCHANGED <<users, expenses, now, nextToken, nextExpenseId, issued>>
    /\ UNCHANGED raceVars

sqlite_add_expense(description, amount, category) ==
    /\ nextRowId <= MaxRows
    /\ rows' = rows \cup
                 {sqlite_row(nextRowId, description, amount, category, now)}
    /\ nextRowId' = nextRowId + 1
    /\ last' = SqliteCall("add_expense", <<description, amount, category>>,
                          "Expense added successfully",
                          {sqlite_row(nextRowId, description, amount, category,
                                      now)}, 0)
    /\ UNCHANGED <<users, expenses, now, nextToken, nextExpenseId, issued>>
    /\ UNCHANGED raceVars

sqlite_list_all_expense ==
    SqliteRead("list_all_expense", rows, 0, "No expenses found")

sqlite_search_expense(search_term) ==
    SqliteRead("search_expense",
               {r \in rows : \/ like_i(search_term, r.description)
                             \/ like_i(search_term, r.category)},
               0, "No expenses found matching")

sqlite_date_range_query(start_date, end_date, category) ==
    {r \in rows : /\ sqlite_between(r.date, start_date, end_date)
                  /\ category # "" => r.category = category}

sqlite_get_expense_details_by_date_and_category(start_date, end_date, category) ==
    SqliteRead("get_expense_details_by_date_and_category",
               sqlite_date_range_query(start_date, end_date, category),
               0, "No expenses found between")

sqlite_get_expense_summary_by_date_and_category(start_date, end_date, category) ==
    SqliteRead("get_expense_summary_by_date_and_category",
               sqlite_date_range_query(start_date, end_date, category),
               SumAmounts(sqlite_date_range_query(start_date, end_date,
                                                  category)),
               "No expenses found between")

sqlite_get_expense_details(expense_id) ==
    SqliteRead("get_expense_details", {r \in rows : r.id = expense_id},
               0, "not found")

\* DELETE ... WHERE description = ?: reports success whatever it deleted
sqlite_delete_expense(description) ==
    LET found == {r \in rows : r.description = description} IN
    /\ rows' = rows \ found
    /\ last' = SqliteCall("delete_expense", <<description>>,
                          "Expense deleted successfully", found,
                          Cardinality(found))
    /\ UNCHANGED nextRowId
    /\ UNCHANGED <<users, expenses, now, nextToken, nextExpenseId, issued>>
    /\ UNCHANGED raceVars

\* UPDATE ... SET amount = ? WHERE description = ?
sqlite_modify_expense(description, amount) ==
    LET found == {r \in rows : r.description = description} IN
    /\ rows' = {IF r \in found THEN [r EXCEPT !.amount = amount] ELSE r :
                    r \in rows}
    /\ last' = SqliteCall("modify_expense", <<description, amount>>,
                          "Expense modified successfully", found,
                          Cardinality(found))
    /\ UNCHANGED nextRowId
    /\ UNCHANGED <<users, expenses, now, nextToken, nextExpenseId, issued>>
    /\ UNCHANGED raceVars

TestNext ==
    \/ \E k \in ExpenseKinds, a \in Amounts : sqlite_add_expense(k[1], a, k[2])
    \/ sqlite_list_all_expense
    \/ \E s \in SearchTerms : sqlite_search_expense(s)
    \/ \E q \in DateQueries :
            sqlite_get_expense_details_by_date_and_category(q[1], q[2], q[3])
    \/ \E q \in DateQueries :
            sqlite_get_expense_summary_by_date_and_category(q[1], q[2], q[3])
    \/ \E id \in 1..MaxRows : sqlite_get_expense_details(id)
    \/ \E d \in Descriptions : sqlite_delete_expense(d)
    \/ \E d \in Descriptions, a \in Amounts : sqlite_modify_expense(d, a)

TestSpec == Init /\ [][TestNext]_vars

(***************************************************************************)
(* Properties.                                                             *)
(***************************************************************************)
DataOps == {"add_expense", "list_all_expense", "search_expense",
            "get_expense_details_by_date_and_category",
            "get_expense_summary_by_date_and_category",
            "get_expense_details", "delete_expense", "modify_expense"}

UnauthenticatedResult == "Invalid session token. Please login first."

\* user u holds token t and the session has not expired at `clock`
LiveSession(us, u, t, clock) ==
    /\ us[u].session_token = t
    /\ us[u].session_expires_at # NULL
    /\ clock <= us[u].session_expires_at

\* the expenses a call returned, matched, deleted or changed all belong to
\* the user whose live token was presented
C1_ResultsAreOwn ==
    last.op \in DataOps =>
        \A e \in last.matched :
            /\ last.user # NULL
            /\ e.user_id = last.user
            /\ issued[last.token] = last.user
            /\ LiveSession(users, last.user, last.token, now)

\* an expense is deleted or changed only by delete_expense or modify_expense
\* called with the live token of its owner
C1_WritesAreOwn ==
    \A e \in expenses :
        e \notin expenses' =>
            /\ last'.op \in {"delete_expense", "modify_expense"}
            /\ last'.user = e.user_id
            /\ e \in last'.matched
            /\ LiveSession(users, e.user_id, last'.token, now)

\* C1: Isolation.  Whatever register, login, logout and expense calls two
\* users have made, a list, search, detail, date-range, delete or modify call
\* made with one user's live token never returns, matches, deletes or changes
\* an expense owned by the other user.
C1_Isolation == [](C1_ResultsAreOwn) /\ [][C1_WritesAreOwn]_vars

\* a delete by one user while the other user holds an expense with the same
\* description, which stays
C1_Witness ==
    /\ last.op = "delete_expense"
    /\ last.matched # {}
    /\ \E e \in expenses :
          e.user_id # last.user /\ e.description = last.args[1]

\* no user holds token t with an unexpired session at `clock`
NotLive(us, t, clock) ==
    \A u \in 1..Len(us) : ~LiveSession(us, u, t, clock)

\* C2: every expense tool (add, list, search, both date-range queries,
\* details, delete, modify) called with a token that resolves to no live user
\* (unknown, logged out, overwritten or expired) fails, and leaves the expense
\* documents exactly as they were.
C2_RejectedCallChangesNothing ==
    [][(last'.op \in DataOps /\ NotLive(users, last'.token, now)) =>
          /\ last'.result = UnauthenticatedResult
          /\ last'.user = NULL
          /\ last'.matched = {}
          /\ expenses' = expenses
          /\ nextExpenseId' = nextExpenseId]_vars

\* an expense tool was rejected on an expired token while expenses exist
C2_Witness ==
    /\ last.op \in {"add_expense", "delete_expense", "modify_expense"}
    /\ last.branch = "expired"
    /\ expenses # {}

\* C3: every call of an expense tool of the repository presents a session
\* token, and reads or writes expense records only after Validate has
\* resolved that token to a user.  (The tools of src/test.py take no token.)
C3_EveryExpenseCallResolvesAToken ==
    last.op \in DataOps =>
        /\ last.token # NULL
        /\ last.result # UnauthenticatedResult => last.user # NULL

DuplicateIdentity == {"Username already exists", "Email already registered"}

C4_Unique ==
    \A i, j \in UserIds :
        i # j => /\ users[i].username # users[j].username
                 /\ users[i].email # users[j].email

\* a register call either collides with a stored username or email, fails
\* with DuplicateIdentity and writes nothing, or appends exactly the one new
\* user, with no session; no other call adds or removes a user
C4_RegisterStep ==
    /\ Len(users') # Len(users) => last'.op = "register_user"
    /\ last'.op = "register_user" =>
         IF \E i \in UserIds : \/ users[i].username = last'.args[1]
                               \/ users[i].email = last'.args[2]
         THEN /\ last'.result \in DuplicateIdentity
              /\ users' = users
         ELSE /\ last'.result = "User registered successfully"
              /\ users' = Append(users,
                                 user_doc(last'.args[1], last'.args[2],
                                          last'.args[3]))

\* C4: Uniqueness.  No two users ever share a username or an email; a
\* register call reusing a stored username or email fails with
\* DuplicateIdentity and leaves the users unchanged; a register call that
\* succeeds adds exactly one, complete, user.
C4_Uniqueness == [](C4_Unique) /\ [][C4_RegisterStep]_vars

\* a register call with a new username was refused for its email
C4_Witness ==
    /\ last.op = "register_user"
    /\ last.result = "Email already registered"
    /\ Len(users) >= 1
    /\ \A i \in UserIds : users[i].username # last.args[1]

\* neither request of the round collided with a user stored when it started
C5_FreshIdentity(p) ==
    \A i \in 1..req[p].base :
        /\ users[i].username # req[p].username
        /\ users[i].email # req[p].email

\* C5: two register calls that overlap and carry the same username (or the
\* same email) end with exactly one new user, one call returning success and
\* the other the DuplicateIdentity outcome.
C5_OneWinnerOneDuplicate ==
    (/\ pc[1] = "done" /\ pc[2] = "done"
     /\ req[1].username = req[2].username \/ req[1].email = req[2].email
     /\ C5_FreshIdentity(1) /\ C5_FreshIdentity(2))
    => /\ Len(users) = req[1].base + 1
       /\ \E p \in Procs :
             /\ ret[p] = "User registered successfully"
             /\ ret[Other(p)] \in DuplicateIdentity

\* what a caller of login_user sees and what the call resolved
Outcome(l) == <<l.result, l.token, l.user, l.matched, l.num>>

AuthFailure == <<"Invalid username or password", NULL, NULL, {}, 0>>

\* C6: Anti-enumeration.  A login with an identifier no user has and a login
\* with a known identifier and a wrong password return the same AuthFailure
\* outcome and leave the same, unchanged, persisted state.
C6_AntiEnumeration ==
    [][(last'.op = "login_user" /\ last'.branch \in {"no_user", "bad_password"})
        => /\ Outcome(last') = AuthFailure
           /\ users' = users
           /\ UNCHANGED <<expenses, nextToken, nextExpenseId, issued>>
           /\ last'.branch = "no_user" <=>
                find_by_username_or_email(users, last'.args[1]) = NULL]_vars

\* a login of a known user was refused for its password, while a session of
\* that user is live
C6_Witness ==
    /\ last.op = "login_user"
    /\ last.branch = "bad_password"
    /\ \E u \in UserIds :
          /\ users[u].username = last.args[1]
          /\ users[u].session_token # NULL

\* C7: Login is all-or-nothing.  A successful login sets, on the
\* authenticated user only, session_token to the returned token and
\* session_expires_at to the login time + SESSION_TIMEOUT, and Validate and
\* CheckStatus of that token then report a valid session of that user; a
\* failed login changes no user's session_token, session_expires_at or
\* last_login.
C7_LoginAllOrNothing ==
    [][last'.op = "login_user" =>
        IF last'.branch = "ok"
        THEN LET u == last'.user
                 t == last'.token
             IN /\ u \in UserIds
                /\ t # NULL
                /\ users' = [users EXCEPT
                               ![u].session_token = t,
                               ![u].session_expires_at =
                                   now + SESSION_TIMEOUT_HOURS,
                               ![u].last_login = now]
                /\ last'.num = now + SESSION_TIMEOUT_HOURS
                /\ get_user_from_token(users', t, now').user = u
                /\ get_user_from_token(users', t, now').users = users'
                /\ session_status(users', t, now').branch = "valid"
                /\ session_status(users', t, now').user = u
                /\ session_status(users', t, now').num = SESSION_TIMEOUT_HOURS
        ELSE users' = users]_vars

\* a login succeeded while the other user has a session of their own
C7_Witness ==
    /\ last.op = "login_user"
    /\ last.branch = "ok"
    /\ \E u \in UserIds : u # last.user /\ users[u].session_token # NULL

\* C8: in every state reached from an empty store by register, login,
\* Validate (with its purge), CheckStatus and logout, a user has a
\* session_token exactly when it has a session_expires_at.
C8_TokenIffExpiry ==
    \A u \in UserIds :
        users[u].session_token = NULL <=> users[u].session_expires_at = NULL

\* Validate has just purged an expired session
C8_Witness ==
    /\ last.op = "get_user_from_token"
    /\ last.branch = "expired"
    /\ \E u \in UserIds : users[u].session_token # NULL

\* the user Validate returns for token t in this state (NULL for None)
Resolves(t) == get_user_from_token(users, t, now).user

\* a token issued to a user before that user's latest login resolves to
\* nobody
C9_OldTokensDead ==
    \A t1, t2 \in 1..Len(issued) :
        (t1 < t2 /\ issued[t1] = issued[t2]) => Resolves(t1) = NULL

\* the token a login returns resolves to its user, and keeps resolving to it
\* until it is logged out, the user logs in again, or the clock passes its
\* expiry
C9_LatestTokenLive ==
    /\ (last'.op = "login_user" /\ last'.branch = "ok") =>
            get_user_from_token(users', last'.token, now').user = last'.user
    /\ \A t \in 1..Len(issued) :
         (Resolves(t) = issued[t]
            /\ get_user_from_token(users', t, now').user # issued[t]) =>
              \/ last'.op = "logout_user" /\ last'.token = t
              \/ last'.op = "login_user" /\ last'.user = issued[t]
              \/ now' > users[issued[t]].session_expires_at

\* C9: Single active session.  Once a user who obtained token T1 logs in
\* again and obtains T2, Validate(T1) never returns that user, while
\* Validate(T2) returns the user until T2 expires or is logged out.
C9_SingleActiveSession == [](C9_OldTokensDead) /\ [][C9_LatestTokenLive]_vars

\* a user has logged in twice and the second session is live
C9_Witness ==
    /\ Len(issued) = 2
    /\ issued[1] = issued[2]
    /\ Resolves(2) = issued[2]

\* token t is held by the user it was issued to
Held(t) == users[issued[t]].session_token = t

\* a token still held, validated before its expiry, returns its user
C10_ValidBeforeExpiry ==
    \A t \in 1..Len(issued) :
        (Held(t) /\ now < users[issued[t]].session_expires_at) =>
            /\ Resolves(t) = issued[t]
            /\ get_user_from_token(users, t, now).users = users

\* the Validate of a held token after its expiry returns Expired and clears
\* the holder's token and expiry, and only the holder's; a token that
\* validates as Invalid validates as Invalid ever after
C10_PurgeThenInvalid ==
    /\ \A t \in 1..Len(issued) :
         (/\ last'.op = "get_user_from_token" /\ last'.token = t
          /\ Held(t) /\ now > users[issued[t]].session_expires_at) =>
              /\ last'.branch = "expired"
              /\ last'.user = NULL
              /\ users' = [users EXCEPT
                             ![issued[t]].session_token = NULL,
                             ![issued[t]].session_expires_at = NULL]
              /\ get_user_from_token(users', t, now').branch = "invalid"
    /\ \A t \in 1..Len(issued) :
         get_user_from_token(users, t, now).branch = "invalid" =>
             get_user_from_token(users', t, now').branch = "invalid"

\* C10: Expiry monotonicity.  For a token issued with expiry E and neither
\* logged out nor overwritten, Validate before E returns the owning user; the
\* first Validate after E returns Expired and clears the holder's token and
\* expiry; every later Validate of that token returns Invalid.
C10_ExpiryMonotonicity ==
    [](C10_ValidBeforeExpiry) /\ [][C10_PurgeThenInvalid]_vars

\* a token was validated as Invalid after the expiry purge had cleared it
C10_Witness ==
    /\ last.op = "get_user_from_token"
    /\ last.branch = "invalid"
    /\ last.token \in 1..Len(issued)
    /\ users[issued[last.token]].session_token = NULL
    /\ users[issued[last.token]].last_login + SESSION_TIMEOUT_HOURS < now
    /\ Cardinality({t \in 1..Len(issued) : issued[t] = issued[last.token]}) = 1

\* what the caller of get_user_from_token receives for a token no user holds
InvalidOutcome ==
    LET v == get_user_from_token(users, BogusToken, now) IN
    <<v.user, IF v.user = NULL THEN "None" ELSE "user">>

\* C11: the token resolver has three outcomes a caller can tell apart: for a
\* token held by a user but past its expiry it reports Expired, which differs
\* from the Invalid it reports for a token held by no user.
C11_ExpiredDiffersFromInvalid ==
    (last.op = "get_user_from_token" /\ last.branch = "expired") =>
        <<last.user, last.result>> # InvalidOutcome

\* every session carries the expiry its login gave it
C12_ExpiryFixedAtLogin ==
    \A u \in UserIds :
        users[u].session_token # NULL =>
            users[u].session_expires_at =
                users[u].last_login + SESSION_TIMEOUT_HOURS

\* a resolver call that accepts the token writes nothing to the users
C12_ValidateKeepsSession ==
    (/\ last'.op \in DataOps \cup {"get_user_from_token"}
     /\ last'.branch = "valid")
    => users' = users

\* C12: No sliding window.  A Validate call (and so any data operation) on a
\* live, unexpired token leaves the holder's session_token and
\* session_expires_at unchanged: after any number of validations the session
\* still expires at the expiry fixed at login.
C12_NoSlidingWindow ==
    [](C12_ExpiryFixedAtLogin) /\ [][C12_ValidateKeepsSession]_vars

\* a token was accepted hours after its login, at the last hour of its session
C12_Witness ==
    /\ last.op = "get_user_from_token"
    /\ last.branch = "valid"
    /\ now = users[last.user].last_login + SESSION_TIMEOUT_HOURS

\* the return statement check_session_status takes for token t
StatusBranch(us, t, clock) ==
    IF \A u \in 1..Len(us) : us[u].session_token # t THEN "invalid"
    ELSE LET u == CHOOSE h \in 1..Len(us) : us[h].session_token = t IN
         IF us[u].session_expires_at = NULL THEN "legacy"
         ELSE IF clock > us[u].session_expires_at THEN "expired"
         ELSE "valid"

\* C13: check_session_status is read-only in every case.  For a valid, an
\* expired, a legacy and an unknown token it leaves all user and expense state
\* unchanged; on an expired token it reports the expiry and does not clear the
\* token, so that a repeated call reports the expiry again, not Invalid.
C13_CheckStatusReadOnly ==
    [][last'.op = "check_session_status" =>
         /\ users' = users
         /\ UNCHANGED <<expenses, now, nextToken, nextExpenseId, issued>>
         /\ last'.branch = StatusBranch(users, last'.token, now)
         /\ last'.branch = "expired" =>
               /\ last'.result = "Session expired"
               /\ users'[last'.user].session_token = last'.token
               /\ session_status(users', last'.token, now').branch = "expired"
         /\ last'.branch = "invalid" => last'.result = "Invalid session token"
      ]_vars

\* check_session_status has reported an expired session, which is still held
C13_Witness ==
    /\ last.op = "check_session_status"
    /\ last.branch = "expired"
    /\ users[last.user].session_token = last.token
    /\ \E u \in UserIds : users[u].session_token = LegacyToken

\* the users that hold token t
Holders(us, t) == {u \in 1..Len(us) : us[u].session_token = t}

\* C14: Logout idempotence.  A logout with a token a user holds returns
\* Success and clears that user's session_token and session_expires_at, and
\* no other user's; the same logout repeated at once returns Invalid and
\* changes nothing; neither call raises an error.
C14_LogoutIdempotence ==
    [][last'.op = "logout_user" =>
         /\ UNCHANGED <<expenses, now, nextToken, nextExpenseId, issued>>
         /\ IF Holders(users, last'.token) # {}
            THEN /\ last'.result = "Logged out successfully"
                 /\ \E h \in Holders(users, last'.token) :
                       users' = [users EXCEPT
                                   ![h].session_token = NULL,
                                   ![h].session_expires_at = NULL]
                 /\ Holders(users', last'.token) = {}
            ELSE /\ last'.result = "Invalid session token"
                 /\ users' = users
      ]_vars

\* a logout of a token that a logout has already cleared, before its expiry,
\* while the other user keeps a session
C14_Witness ==
    /\ last.op = "logout_user"
    /\ last.result = "Invalid session token"
    /\ last.token \in 1..Len(issued)
    /\ users[issued[last.token]].session_token = NULL
    /\ now <= users[issued[last.token]].last_login + SESSION_TIMEOUT_HOURS
    /\ Cardinality({t \in 1..Len(issued) : issued[t] = issued[last.token]}) = 1
    /\ \E u \in UserIds : users[u].session_token # NULL

\* C15: for every registered user U, a login with U's password succeeds as U
\* when the identifier is U's username and when it is U's email, also when
\* another user's email equals U's username or the other way round.
C15_LoginByUsernameOrEmail ==
    last.op = "login_user" =>
        \A u \in UserIds :
            (/\ users[u].username = last.args[1]
                  \/ users[u].email = last.args[1]
             /\ password_ok(users[u], last.args[2]))
            => (last.branch = "ok" /\ last.user = u)

\* the outcomes of the domain: DuplicateIdentity, AuthFailure, the Invalid of
\* logout and CheckStatus, Unauthenticated, and the None by which the resolver
\* reports Invalid and Expired
DomainOutcomes ==
    DuplicateIdentity \cup
    {"Invalid username or password", "Invalid session token",
     UnauthenticatedResult, "None"}

\* C16: a storage fault during any operation, also during the token lookup or
\* the expiry purge inside Validate, reaches the caller as an infrastructure
\* failure, an outcome that is none of Invalid, Expired, Unauthenticated,
\* AuthFailure and DuplicateIdentity.
C16_FaultsAreInfrastructureFailures ==
    last.branch = "fault" => last.result \notin DomainOutcomes

\* both requests of the round have returned
BothDone == \A p \in Procs : pc[p] = "done"

\* the two requests were logins with the credentials of one and the same user
TwoLoginsOfOneUser ==
    /\ BothDone
    /\ \A p \in Procs :
          /\ req[p].op = "login_user"
          /\ find_by_username_or_email(users, req[p].username) # NULL
          /\ password_ok(
                users[find_by_username_or_email(users, req[p].username)],
                req[p].password)
    /\ find_by_username_or_email(users, req[1].username)
         = find_by_username_or_email(users, req[2].username)

\* both logins returned success; one of the two tokens resolves to the user
\* and the other to nobody
C17_OneTokenSurvives ==
    TwoLoginsOfOneUser =>
        /\ \A p \in Procs : ret[p] = "Login successful"
        /\ req[1].token # req[2].token
        /\ \E p \in Procs :
              /\ Resolves(req[p].token) = req[p].uid
              /\ Resolves(req[Other(p)].token) = NULL

\* the write of a login succeeds whatever the other request has written, and
\* leaves its own token on the user
C17_LastWriteWins ==
    \A p \in Procs :
        (pc[p] = "login_update_one" /\ pc'[p] = "done") =>
            /\ ret'[p] = "Login successful"
            /\ users'[req[p].uid].session_token = req[p].token
            /\ get_user_from_token(users', req[p].token, now').user = req[p].uid

\* C17: two concurrent logins of the same user, however their reads and
\* writes interleave, both return success with no race error; when both have
\* completed, exactly one of the two issued tokens, the one written last,
\* resolves to the user and the other resolves to no user.
C17_ConcurrentLogins == [](C17_OneTokenSurvives) /\ [][C17_LastWriteWins]_vars

\* both logins succeeded and the token generated first was written last
C17_Witness ==
    /\ TwoLoginsOfOneUser
    /\ \A p \in Procs : ret[p] = "Login successful"
    /\ \E p \in Procs :
          /\ req[p].token < req[Other(p)].token
          /\ users[req[p].uid].session_token = req[p].token

\* C19: the token lookup and the lazy purge of Validate act as one atomic
\* read-modify-write: however a Validate of an expired token T interleaves
\* with a login of the same user, the purge clears only the token T it looked
\* up, never the token and expiry that login has written.
C19_PurgeClearsOnlyItsToken ==
    [][\A p \in Procs :
         (pc[p] = "validate_purge" /\ pc'[p] = "done") =>
             \A u \in UserIds :
                 users[u].session_token # req[p].token => users'[u] = users[u]
      ]_vars

\* token t is held, past its expiry, in the collection us
HeldExpired(us, t, clock) ==
    \E u \in 1..Len(us) :
        /\ us[u].session_token = t
        /\ us[u].session_expires_at # NULL
        /\ clock > us[u].session_expires_at

\* C20: two concurrent Validate calls on the same expired token, however they
\* interleave, both return a rejection and no error, and leave the holder's
\* token and expiry cleared exactly as a single purge does: the second purge
\* is a no-op.
C20_DoublePurge ==
    (/\ BothDone
     /\ \A p \in Procs : req[p].op = "get_user_from_token"
     /\ req[1].token = req[2].token
     /\ \E p \in Procs : HeldExpired(req[p].before, req[p].token, now))
    => /\ \A p \in Procs : ret[p] = "None"
       /\ \A p \in Procs :
             HeldExpired(req[p].before, req[p].token, now) =>
                 users = get_user_from_token(req[p].before, req[p].token,
                                             now).users
       /\ \A u \in UserIds : users[u].session_token # req[1].token

\* both calls read the expired session before either purged it, and both
\* purged
C20_Witness ==
    /\ BothDone
    /\ \A p \in Procs :
          /\ req[p].op = "get_user_from_token"
          /\ req[p].uid # NULL
          /\ ret[p] = "None"
    /\ req[1].token = req[2].token
    /\ \E u \in UserIds : users[u].session_token # NULL

\* no two users hold the same token, so a presented token resolves to at most
\* one user
C18_OneHolder ==
    /\ \A u1, u2 \in UserIds :
          (u1 # u2 /\ users[u1].session_token # NULL) =>
              users[u1].session_token # users[u2].session_token
    /\ \A t \in PresentedTokens : Cardinality(Holders(users, t)) <= 1

\* the token a login returns is none of the tokens generated before it, is
\* held by no user before the login and by exactly its user after it
C18_FreshToken ==
    (last'.op = "login_user" /\ last'.branch = "ok") =>
        /\ last'.token \notin 1..(nextToken - 1)
        /\ Holders(users, last'.token) = {}
        /\ Holders(users', last'.token) = {last'.user}

Legacy(us, u) ==
    us[u].session_token # NULL /\ us[u].session_expires_at = NULL

\* Validate of the token of a legacy session returns its user and writes
\* nothing, whatever the clock
C21_LegacyResolves ==
    \A u \in UserIds :
        Legacy(users, u) =>
            LET v == get_user_from_token(users, users[u].session_token, now) IN
            /\ v.user = u
            /\ v.users = users

\* a legacy session ends only by a logout of its token or a login of its user
C21_LegacyEnds ==
    \A u \in UserIds :
        (Legacy(users, u) /\ users'[u] # users[u]) =>
            \/ /\ last'.op = "logout_user"
               /\ last'.token = users[u].session_token
            \/ /\ last'.op = "login_user"
               /\ last'.branch = "ok"
               /\ last'.user = u

\* C21: Legacy state.  When a user holds a token but has no
\* session_expires_at, Validate returns that user at every clock value and
\* never purges the token; the session ends only by logout or by a later
\* login of that user.
C21_LegacySession == [](C21_LegacyResolves) /\ [][C21_LegacyEnds]_vars

\* the legacy token was accepted two days on, after another session expired
C21_Witness ==
    /\ last.op = "get_user_from_token"
    /\ last.token = LegacyToken
    /\ last.branch = "valid"
    /\ now = MaxClock
    /\ \E u \in UserIds : Legacy(users, u)

\* C22: Expiry is strict.  A Validate (or CheckStatus) made when the clock
\* equals session_expires_at exactly still treats the session as valid and
\* purges nothing; only a clock strictly greater than session_expires_at
\* gives Expired and the clearing of token and expiry.
C22_StrictExpiry ==
    \A u \in UserIds :
        (users[u].session_token # NULL /\ users[u].session_expires_at # NULL)
        => LET t == users[u].session_token
               v == get_user_from_token(users, t, now)
               st == session_status(users, t, now)
           IN IF now <= users[u].session_expires_at
              THEN /\ v.user = u /\ v.users = users /\ v.branch = "valid"
                   /\ st.branch = "valid" /\ st.user = u
              ELSE /\ v.user = NULL /\ v.branch = "expired"
                   /\ v.users = [users EXCEPT
                                    ![u].session_token = NULL,
                                    ![u].session_expires_at = NULL]
                   /\ st.branch = "expired"

\* CheckStatus found a session valid at the very hour of its expiry
C22_Witness ==
    /\ last.op = "check_session_status"
    /\ last.branch = "valid"
    /\ last.num = 0
    /\ now = users[last.user].session_expires_at

\* every expense keeps its owner, description, category and date, and its
\* amount changes only by a modify_expense of its owner with its description
C23_FieldsFixed ==
    \A e \in expenses, f \in expenses' :
        e.id = f.id =>
            /\ f.user_id = e.user_id
            /\ f.description = e.description
            /\ f.category = e.category
            /\ f.date = e.date
            /\ f.amount # e.amount =>
                  /\ last'.op = "modify_expense"
                  /\ last'.user = e.user_id
                  /\ last'.args[1] = e.description
                  /\ last'.args[2] = f.amount

\* add_expense gives the new expense the user resolved from the token;
\* modify_expense sets the amount of the caller's expenses with the given
\* description and changes nothing else
C23_WriteSteps ==
    /\ (last'.op = "add_expense" /\ last'.user # NULL) =>
          /\ LiveSession(users, last'.user, last'.token, now)
          /\ \E f \in expenses' \ expenses :
                /\ f.user_id = last'.user
                /\ expenses' = expenses \cup {f}
    /\ (last'.op = "modify_expense" /\ last'.user # NULL) =>
          expenses' = {IF e.user_id = last'.user
                          /\ e.description = last'.args[1]
                       THEN [e EXCEPT !.amount = last'.args[2]]
                       ELSE e : e \in expenses}

\* C23: the owner of an expense is fixed at creation to the user resolved
\* from the presented token and never changes; modify_expense changes only
\* the amount of the caller's expenses with the given description and leaves
\* owner, description, category and date of every expense, and the amount of
\* every other expense, unchanged.
C23_OwnerFixed == [][C23_FieldsFixed /\ C23_WriteSteps]_vars

\* a modify changed the caller's expense and left the other user's expense
\* with the same description as it was
C23_Witness ==
    /\ last.op = "modify_expense"
    /\ last.num > 0
    /\ \E e \in expenses :
          /\ e.user_id = last.user
          /\ e.description = last.args[1]
          /\ e.amount = last.args[2]
    /\ \E e \in expenses :
          /\ e.user_id # last.user
          /\ e.description = last.args[1]
          /\ e.amount # last.args[2]

\* C24: in every reachable state every stored expense has a non-negative
\* amount, whatever amounts callers pass to add_expense and modify_expense.
C24_NonNegativeAmounts == \A e \in expenses : e.amount >= 0

\* C25: Register checks the username before the email.  When the requested
\* username collides with an existing user and the requested email collides
\* with an existing user, the collision reported is the username one; in
\* either collision case no user is written.
C25_UsernameBeforeEmail ==
    [][last'.op = "register_user" =>
         LET name_taken == \E i \in UserIds :
                               users[i].username = last'.args[1]
             mail_taken == \E i \in UserIds : users[i].email = last'.args[2]
         IN /\ name_taken => last'.result = "Username already exists"
            /\ (~name_taken /\ mail_taken) =>
                   last'.result = "Email already registered"
            /\ (name_taken \/ mail_taken) => users' = users
      ]_vars

\* a registration with the username of one user and the email of another
\* was refused for the username
C25_Witness ==
    /\ last.op = "register_user"
    /\ last.result = "Username already exists"
    /\ \E i, j \in UserIds :
          /\ i # j
          /\ users[i].username = last.args[1]
          /\ users[j].email = last.args[2]
          /\ users[i].email # last.args[2]

\* C26: a data operation succeeds on behalf of user U only if the presented
\* token is non-null and equal to U's current session_token; a user with no
\* session (never logged in, logged out or purged) is never resolved by
\* Validate, whatever value is presented, a null or empty token included.
C26_ResolvesOnlyCurrentToken ==
    (last.op \in DataOps \cup {"get_user_from_token"} /\ last.user # NULL) =>
        /\ last.token # NULL
        /\ users[last.user].session_token = last.token

\* C27: Token death is permanent.  Once a token has stopped resolving to its
\* user (by logout, by a later login overwriting it, or by the expiry purge),
\* no later register, login, logout, Validate or CheckStatus call makes
\* Validate accept that token again, for any user.
C27_TokenDeathIsPermanent ==
    [][\A t \in 1..Len(issued) :
         Resolves(t) = NULL =>
             get_user_from_token(users', t, now').user = NULL]_vars

\* a user whose first token is dead has logged in again
C27_Witness ==
    /\ last.op = "login_user"
    /\ last.branch = "ok"
    /\ \E t \in 1..Len(issued) :
          /\ t # last.token
          /\ issued[t] = last.user
          /\ Resolves(t) = NULL
    /\ now > 0

\* C28: check_session_status and Validate agree in every reachable state and
\* at every clock value: check_session_status reports a valid session for a
\* token exactly when Validate of that token in that state returns a user,
\* reports expired exactly when Validate would purge, and reports Invalid
\* exactly when no user holds the token.
C28_StatusAgreesWithValidate ==
    \A t \in PresentedTokens :
        LET st == session_status(users, t, now)
            v == get_user_from_token(users, t, now)
        IN /\ st.branch = "valid" <=> v.user # NULL
           /\ st.branch = "valid" => st.user = v.user
           /\ st.branch = "expired" <=> v.users # users
           /\ st.branch = "invalid" <=> Holders(users, t) = {}
           /\ st.branch \in {"valid", "expired", "invalid"}

\* Validate has purged an expired session, whose token CheckStatus now finds
\* Invalid, while it finds another session valid
C28_Witness ==
    /\ last.op = "get_user_from_token"
    /\ last.branch = "expired"
    /\ last.token \in 1..Len(issued)
    /\ session_status(users, last.token, now).branch = "invalid"
    /\ \E t \in PresentedTokens :
          session_status(users, t, now).branch = "valid"

\* C29: however a data operation interleaves with a logout (or an expiry
\* purge) of the same token, an expense is inserted, modified or deleted only
\* while the presented token is still the owner's current live session; no
\* expense write takes effect after the logout of that token has completed.
C29_WritesOnlyWhileLive ==
    [][\A p \in Procs :
         (pc[p] = "expense_write" /\ pc'[p] = "done" /\ expenses' # expenses)
         => LiveSession(users, req[p].uid, req[p].token, now)]_vars

=============================================================================
